---- MODULE Spec2Model ----
(***************************************************************************)
(* The process resolver of pkg/security/probe (ProcessResolver): a cache   *)
(* pid -> *ProcessCacheEntry with parent/children lineage, guarded by one  *)
(* sync.RWMutex, filled by AddEntry, by SyncCache (/proc snapshot) and by  *)
(* Resolve's fallback to the kernel tables.                                *)
(*                                                                         *)
(* Entries are objects of a heap (a sequence of records); a pointer is an  *)
(* index into the heap, NoEntry is the nil pointer.  Every goroutine that  *)
(* calls into the resolver is a thread with a program counter; one action  *)
(* is one stretch of code between two points where the mutex is acquired.  *)
(***************************************************************************)
EXTENDS Integers, Sequences, FiniteSets, TLC

\* ----------------------------------------------------------------- bounds
MaxPid == 2
NThreads == 2
MaxCalls == 3
MaxStarts == 5
MaxBufLen == 9

Pids == 0..MaxPid
Threads == 1..NThreads

\* ------------------------------------------------------ program constants
\* nil *ProcessCacheEntry
NoEntry == 0
\* no goroutine holds the mutex
NoThread == 0
\* len(data) < 208 in resolve
MinDataSize == 208
\* cookieb[0:4]
CookieSize == 4
\* len(data) < 8 in InodeInfo.UnmarshalBinary
InodeInfoSize == 8

VARIABLES
    entryCache,   \* p.entryCache: pid -> pointer (NoEntry: no such key)
    heap,         \* the ProcessCacheEntry objects allocated so far
    mu,           \* the goroutine holding p.RWMutex exclusively, or NoThread
    pc,           \* where each goroutine stands
    op,           \* the resolver method each goroutine called last
    arg,          \* its arguments and locals
    ret,          \* what the last call returned
    calls,        \* calls made so far
    fields,       \* what Start left in p.snapshotProbes and the three map fields
    started,      \* the calls of Start so far and what the last one returned
    inodeBuf,     \* a buffer handed to InodeInfo.UnmarshalBinary
    inodeInfo     \* what InodeInfo.UnmarshalBinary made of it

\* The cache, its lock and the goroutines using it.
cacheVars == <<entryCache, heap, mu, pc, op, arg, ret, calls>>

\* The resolver's start-up and the decoder, which touch no cache state.
setupVars == <<fields, started, inodeBuf, inodeInfo>>

vars == <<entryCache, heap, mu, pc, op, arg, ret, calls, fields, started, inodeBuf, inodeInfo>>

\* ------------------------------------------------------------ byte buffers
\* A []byte is a sequence of 0..255; make([]byte, n) filled with b.
Fill(n, b) == [i \in 1..n |-> b]

\* ebpf.ByteOrder.Uint32(b): the tracer's byte order is little endian.
Uint32(b) == b[1] + 256 * b[2] + 65536 * b[3] + 16777216 * b[4]

\* int32(u) of a uint32 u: two's complement, written so that no intermediate
\* value leaves 32 bits.
Int32(u) == IF u > 2147483647 THEN (u - 2147483647) - 2147483647 - 2 ELSE u

\* data[from:] with from counted from 0 as in Go.
SliceFrom(data, from) == SubSeq(data, from + 1, Len(data))

\* What (*lib.Map).LookupBytes returns: (nil, err), (nil, nil) for a missing
\* key, or the value's bytes.
LookupErr == [err |-> TRUE, isnil |-> TRUE, bytes |-> <<>>]
LookupMiss == [err |-> FALSE, isnil |-> TRUE, bytes |-> <<>>]
LookupHit(b) == [err |-> FALSE, isnil |-> FALSE, bytes |-> b]

\* --------------------------------------------------------------- entries
\* &ProcessCacheEntry{...}: the fields the resolver reads or writes.
NewEntry(pid, ppid, ts) ==
    [Pid |-> pid, PPid |-> ppid, ExecTimestamp |-> ts, UID |-> 0, GID |-> 0,
     MountID |-> 0, OverlayNumLower |-> 0,
     Children |-> <<>>, Parent |-> NoEntry]

\* time.Time{}: ExecTimestamp.IsZero() holds of it alone.
ZeroTime == 0

\* time.Unix(0, createTime*int64(time.Millisecond)): the Unix epoch lies after
\* the zero Time, so no creation time maps to the zero Time.
TimeUnixMilli(createTime) == createTime + 1

\* InodeInfo.UnmarshalBinary that asks for more than the record's 8 bytes.
InodeInfoUnmarshalBinary_OffByOne(data) ==
    IF Len(data) <= InodeInfoSize
    THEN [n |-> 0, err |-> TRUE, MountID |-> 0, OverlayNumLower |-> 0]
    ELSE [n |-> InodeInfoSize, err |-> FALSE,
          MountID |-> Uint32(data),
          OverlayNumLower |-> Int32(Uint32(SliceFrom(data, 4)))]

\* InodeInfo.UnmarshalBinary
InodeInfoUnmarshalBinary(data) ==
    IF Len(data) < InodeInfoSize
    THEN [n |-> 0, err |-> TRUE, MountID |-> 0, OverlayNumLower |-> 0]
    ELSE [n |-> InodeInfoSize, err |-> FALSE,
          MountID |-> Uint32(data),
          OverlayNumLower |-> Int32(Uint32(SliceFrom(data, 4)))]

\* retrieveInodeInfo, given what inodeInfoMap.LookupBytes returned.
retrieveInodeInfo(looked) ==
    IF looked.err THEN [err |-> TRUE, MountID |-> 0, OverlayNumLower |-> 0]
    ELSE IF looked.isnil THEN [err |-> TRUE, MountID |-> 0, OverlayNumLower |-> 0]
    ELSE LET info == InodeInfoUnmarshalBinary(looked.bytes)
         IN [err |-> info.err, MountID |-> info.MountID,
             OverlayNumLower |-> info.OverlayNumLower]

\* enrichEventFromProc writing the file identity as soon as the inode is
\* known, before the container ID is resolved: a failure of the container
\* resolver then leaves the entry half written.
enrichEventFromProc_WriteEarly(h, entry, proc, env) ==
    IF env.readlink \in {"err", "/ (deleted)"} \/ env.stat \in {"err", "nosys"}
    THEN [err |-> TRUE, heap |-> h]
    ELSE LET info == retrieveInodeInfo(env.inode) IN
         IF info.err THEN [err |-> TRUE, heap |-> h]
         ELSE LET h1 == [h EXCEPT ![entry].MountID = info.MountID,
                                  ![entry].OverlayNumLower = info.OverlayNumLower]
              IN IF env.container = "err" THEN [err |-> TRUE, heap |-> h1]
                 ELSE [err |-> FALSE,
                       heap |-> [h1 EXCEPT
                          ![entry].ExecTimestamp = TimeUnixMilli(proc.CreateTime),
                          ![entry].PPid = proc.Ppid,
                          ![entry].Pid = proc.Pid]]

\* enrichEventFromProc(entry, proc) on heap h.  env is what /proc, the inode
\* table and the container resolver answer for this pid.  Every failure
\* returns before the first write to *entry.
enrichEventFromProc(h, entry, proc, env) ==
    IF env.readlink = "err" THEN [err |-> TRUE, heap |-> h]
    ELSE IF env.readlink = "/ (deleted)" THEN [err |-> TRUE, heap |-> h]
    ELSE IF env.stat = "err" THEN [err |-> TRUE, heap |-> h]
    ELSE IF env.stat = "nosys" THEN [err |-> TRUE, heap |-> h]
    ELSE LET info == retrieveInodeInfo(env.inode) IN
         IF info.err THEN [err |-> TRUE, heap |-> h]
         ELSE IF env.container = "err" THEN [err |-> TRUE, heap |-> h]
         ELSE [err |-> FALSE,
               heap |-> [h EXCEPT
                  ![entry].MountID = info.MountID,
                  ![entry].OverlayNumLower = info.OverlayNumLower,
                  ![entry].ExecTimestamp = TimeUnixMilli(proc.CreateTime),
                  ![entry].PPid = proc.Ppid,
                  ![entry].Pid = proc.Pid,
                  ![entry].UID = IF Len(proc.Uids) > 0 THEN proc.Uids[1] ELSE @,
                  ![entry].GID = IF Len(proc.Gids) > 0 THEN proc.Gids[1] ELSE @]]

\* ------------------------------------------------------------- the cache
\* insertEntry without the check for a cached parent: a parent pid >= 1 gets
\* a new placeholder whether or not the parent is cached.
insertEntry_AlwaysPlaceholder(h, c, pid, entry) ==
    LET ppid == h[entry].PPid IN
       IF ppid >= 1
       THEN LET parent == Len(h) + 1
                h1 == Append(h, [NewEntry(ppid, 0, ZeroTime)
                                   EXCEPT !.Children = <<entry>>])
                c1 == [c EXCEPT ![ppid] = parent]
            IN [heap |-> [h1 EXCEPT ![entry].Parent = parent],
                cache |-> [c1 EXCEPT ![pid] = entry]]
       ELSE [heap |-> [h EXCEPT ![entry].Parent = NoEntry],
             cache |-> [c EXCEPT ![pid] = entry]]

\* insertEntry as a put-if-absent: an entry already stored under pid stays.
insertEntry_KeepExisting(h, c, pid, entry) ==
    LET ppid == h[entry].PPid
        ok == c[ppid] # NoEntry
        stored == IF c[pid] # NoEntry THEN c[pid] ELSE entry
    IN IF ok
       THEN LET parent == c[ppid]
                h1 == [h EXCEPT ![parent].Children = Append(@, entry)]
            IN [heap |-> [h1 EXCEPT ![entry].Parent = parent],
                cache |-> [c EXCEPT ![pid] = stored]]
       ELSE IF ppid >= 1
       THEN LET parent == Len(h) + 1
                h1 == Append(h, [NewEntry(ppid, 0, ZeroTime)
                                   EXCEPT !.Children = <<entry>>])
                c1 == [c EXCEPT ![ppid] = parent]
            IN [heap |-> [h1 EXCEPT ![entry].Parent = parent],
                cache |-> [c1 EXCEPT ![pid] = stored]]
       ELSE [heap |-> [h EXCEPT ![entry].Parent = NoEntry],
             cache |-> [c EXCEPT ![pid] = stored]]

\* insertEntry that resets the child list of a cached parent to the new
\* entry instead of appending to it.
insertEntry_ResetChildren(h, c, pid, entry) ==
    LET ppid == h[entry].PPid
        ok == c[ppid] # NoEntry
    IN IF ok
       THEN LET parent == c[ppid]
                h1 == [h EXCEPT ![parent].Children = <<entry>>]
            IN [heap |-> [h1 EXCEPT ![entry].Parent = parent],
                cache |-> [c EXCEPT ![pid] = entry]]
       ELSE IF ppid >= 1
       THEN LET parent == Len(h) + 1
                h1 == Append(h, [NewEntry(ppid, 0, ZeroTime)
                                   EXCEPT !.Children = <<entry>>])
                c1 == [c EXCEPT ![ppid] = parent]
            IN [heap |-> [h1 EXCEPT ![entry].Parent = parent],
                cache |-> [c1 EXCEPT ![pid] = entry]]
       ELSE [heap |-> [h EXCEPT ![entry].Parent = NoEntry],
             cache |-> [c EXCEPT ![pid] = entry]]

\* The body of insertEntry between p.Lock() and p.Unlock(), on heap h and
\* map c: the new heap and map.
insertEntry(h, c, pid, entry) ==
    LET ppid == h[entry].PPid
        ok == c[ppid] # NoEntry
    IN IF ok
       THEN LET parent == c[ppid]
                h1 == [h EXCEPT ![parent].Children = Append(@, entry)]
            IN [heap |-> [h1 EXCEPT ![entry].Parent = parent],
                cache |-> [c EXCEPT ![pid] = entry]]
       ELSE IF ppid >= 1
       THEN LET parent == Len(h) + 1
                h1 == Append(h, [NewEntry(ppid, 0, ZeroTime)
                                   EXCEPT !.Children = <<entry>>])
                c1 == [c EXCEPT ![ppid] = parent]
            IN [heap |-> [h1 EXCEPT ![entry].Parent = parent],
                cache |-> [c1 EXCEPT ![pid] = entry]]
       ELSE [heap |-> [h EXCEPT ![entry].Parent = NoEntry],
             cache |-> [c EXCEPT ![pid] = entry]]

\* DelEntry cascading to the children of the deleted entry.
deleteEntry_Cascade(h, c, pid) ==
    [heap |-> h,
     cache |-> [q \in DOMAIN c |->
                  IF q = pid THEN NoEntry
                  ELSE IF /\ c[pid] # NoEntry /\ c[q] # NoEntry
                          /\ \E i \in DOMAIN h[c[pid]].Children :
                                h[c[pid]].Children[i] = c[q]
                  THEN NoEntry ELSE c[q]]]

\* DelEntry that also takes the deleted entry out of its parent's child list.
deleteEntry_Unlink(h, c, pid) ==
    LET old == c[pid]
        Keep(o) == o # old
    IN [heap |-> IF old # NoEntry /\ h[old].Parent # NoEntry
                 THEN [h EXCEPT ![h[old].Parent].Children = SelectSeq(@, Keep)]
                 ELSE h,
        cache |-> [c EXCEPT ![pid] = NoEntry]]

\* The body of DelEntry between p.Lock() and the deferred p.Unlock(), on heap
\* h and map c: delete(p.entryCache, pid) and nothing else.
deleteEntry(h, c, pid) == [heap |-> h, cache |-> [c EXCEPT ![pid] = NoEntry]]

\* entry, exists := p.entryCache[pid]; the pointer Get and Resolve hand back.
Lookup(c, pid) == c[pid]

\* The check with its test of the timestamp inverted.
AlreadyEnriched_Inverted(h, c, pid) ==
    c[pid] # NoEntry /\ h[c[pid]].ExecTimestamp = ZeroTime

\* The check SyncCache makes under the lock: the pid is cached and enriched.
AlreadyEnriched(h, c, pid) ==
    c[pid] # NoEntry /\ h[c[pid]].ExecTimestamp # ZeroTime

\* ---------------------------------------------------- fallback resolution
\* The fixed prefix of an encoded process record that
\* ProcessCacheEntry.UnmarshalBinary consumes; uid and gid follow it.
ProcPrefixSize == 200

\* ProcessCacheEntry.UnmarshalBinary(data, resolvers, true): too short a
\* buffer is ErrNotEnoughData, else the fixed prefix is consumed (exec
\* timestamp, command name, parent pid, file identity).
ProcessCacheEntryUnmarshalBinary(data) ==
    IF Len(data) < ProcPrefixSize
    THEN [n |-> 0, err |-> TRUE, ExecTimestamp |-> ZeroTime, PPid |-> 0]
    ELSE [n |-> ProcPrefixSize, err |-> FALSE,
          ExecTimestamp |-> TimeUnixMilli(Uint32(data)),
          PPid |-> Uint32(SliceFrom(data, 24))]

\* resolve caching a miss: a pid the tables do not know gets an empty entry.
resolve_CacheMiss(h, pid, cookieLooked, entryLooked) ==
    IF cookieLooked.err \/ cookieLooked.isnil
    THEN [outcome |-> "insert", lookups |-> 1,
          heap |-> Append(h, NewEntry(pid, 0, ZeroTime))]
    ELSE IF Len(cookieLooked.bytes) < CookieSize
    THEN [outcome |-> "panic", heap |-> h, lookups |-> 1]
    ELSE [outcome |-> "nil", heap |-> h, lookups |-> 2]

\* resolve(pid) up to its call of insertEntry, on heap h.  cookieLooked and
\* entryLooked are what pidCookieMap.LookupBytes and procCacheMap.LookupBytes
\* answer.  outcome "nil": return nil; "panic": cookieb[0:4] is out of range
\* (LookupBytes returns a slice whose capacity is its length); "insert": the
\* decoded entry, allocated as the last object of the heap, goes to
\* insertEntry.  lookups counts the table lookups made.
resolve(h, pid, cookieLooked, entryLooked) ==
    IF cookieLooked.err \/ cookieLooked.isnil
    THEN [outcome |-> "nil", heap |-> h, lookups |-> 1]
    ELSE IF Len(cookieLooked.bytes) < CookieSize
    THEN [outcome |-> "panic", heap |-> h, lookups |-> 1]
    ELSE IF entryLooked.err \/ entryLooked.isnil
    THEN [outcome |-> "nil", heap |-> h, lookups |-> 2]
    ELSE LET data == entryLooked.bytes \o cookieLooked.bytes IN
         IF Len(data) < MinDataSize
         THEN [outcome |-> "nil", heap |-> h, lookups |-> 2]
         ELSE LET dec == ProcessCacheEntryUnmarshalBinary(data) IN
              IF dec.err
              THEN [outcome |-> "nil", heap |-> h, lookups |-> 2]
              ELSE IF dec.n + 8 > Len(data)
              THEN [outcome |-> "panic", heap |-> h, lookups |-> 2]
              ELSE [outcome |-> "insert", lookups |-> 2,
                    heap |-> Append(h,
                       [NewEntry(pid, dec.PPid, dec.ExecTimestamp) EXCEPT
                          !.UID = Uint32(SliceFrom(data, dec.n)),
                          !.GID = Uint32(SliceFrom(data, dec.n + 4))])]

\* ------------------------------------------------------------ environment
\* An encoded process record of n bytes whose parent pid is ppid.
RecordBuf(n, ppid) ==
    [i \in 1..n |-> IF i = 1 THEN 5 ELSE IF i = 25 THEN ppid ELSE 0]

\* What the pid -> cookie table may answer: an error, no such pid, a value
\* shorter than a cookie, a bare cookie, a cookie followed by uid and gid.
PidCookieAnswers ==
    {LookupErr, LookupMiss, LookupHit(Fill(3, 1)), LookupHit(<<7, 0, 0, 0>>),
     LookupHit(<<7, 0, 0, 0, 3, 0, 0, 0, 4, 0, 0, 0>>)}

\* What the cookie -> record table may answer: an error, no such cookie, a
\* truncated record, the prefix alone, the prefix followed by 4 bytes.
ProcCacheAnswers ==
    {LookupErr, LookupMiss, LookupHit(RecordBuf(100, 1)),
     LookupHit(RecordBuf(ProcPrefixSize, 1)),
     LookupHit(RecordBuf(ProcPrefixSize + 4, 1))}

\* What the inode table may answer.
InodeInfoAnswers ==
    {LookupErr, LookupMiss, LookupHit(<<1, 0, 0, 0>>),
     LookupHit(<<1, 0, 0, 0, 2, 0, 0, 0>>)}

\* What /proc, the inode table and the container resolver answer for one pid:
\* every step succeeds, or one of them fails in one of its ways.
GoodEnv ==
    [readlink |-> "/bin/x", stat |-> "ok",
     inode |-> LookupHit(<<1, 0, 0, 0, 2, 0, 0, 0>>), container |-> "ok"]

ProcEnvs ==
    {GoodEnv}
    \cup {[GoodEnv EXCEPT !.readlink = r] : r \in {"err", "/ (deleted)"}}
    \cup {[GoodEnv EXCEPT !.stat = r] : r \in {"err", "nosys"}}
    \cup {[GoodEnv EXCEPT !.inode = r] : r \in InodeInfoAnswers}
    \cup {[GoodEnv EXCEPT !.container = "err"]}

\* The *process.FilledProcess values handed to SyncCache.
Procs ==
    [Pid : Pids, Ppid : Pids, CreateTime : {0}, Uids : {<<0>>}, Gids : {<<0>>}]

NoProc == [Pid |-> 0, Ppid |-> 0, CreateTime |-> 0, Uids |-> <<>>, Gids |-> <<>>]

\* The exec timestamps of the entries handed to AddEntry: none (the zero
\* Time) or some.
ExecTimes == {ZeroTime, TimeUnixMilli(0)}

\* ---------------------------------------------------------------- threads
\* A goroutine's frame: the number of the call (0: none yet), its arguments
\* and its locals.
NoArg ==
    [id |-> 0, pid |-> 0, entry |-> NoEntry, inCache |-> FALSE, proc |-> NoProc,
     lookups |-> 0, written |-> FALSE]

\* The frame of a new call.
NewArg == [NoArg EXCEPT !.id = calls + 1]
NoRet == [ptr |-> NoEntry, ok |-> FALSE]

\* A goroutine is between two calls and may make another.
\* No goroutine has panicked: a panic is not recovered and ends the process.
Running == \A t \in Threads : pc[t] # "panicked"

\* A goroutine is between two calls and may make another.
CanCall(t) == Running /\ pc[t] = "idle" /\ calls < MaxCalls

\* The frames after a map write (mapassign, or mapdelete on a map that is not
\* empty): the write sets the map's hashWriting flag, which the range of every
\* DumpCache under way may find set, whatever was written.
MapWritten(a) ==
    [u \in Threads |-> IF pc[u] = "dump" THEN [a[u] EXCEPT !.written = TRUE] ELSE a[u]]

\* --------------------------------------------------------------- start-up
\* The sections of the snapshot probes Start looks for.
snapshotProbeIDs == <<"kretprobe/get_task_exe_file">>

\* The kernel tables Start looks for.
MapNames == {"inode_info_cache", "proc_cache", "pid_cache"}

\* What the eBPF manager holds when Start asks: the probes and maps it loaded.
Managers == [probes : SUBSET {snapshotProbeIDs[i] : i \in DOMAIN snapshotProbeIDs},
             maps : SUBSET MapNames]

\* A manager that loaded everything.
FullManager ==
    [probes |-> {snapshotProbeIDs[i] : i \in DOMAIN snapshotProbeIDs}, maps |-> MapNames]

\* The fields Start writes, as NewProcessResolver leaves them: no snapshot
\* probe, nil maps (a map field is the name of the map it points to, or "").
NoFields ==
    [snapshotProbes |-> <<>>, inodeInfoMap |-> "", procCacheMap |-> "", pidCookieMap |-> ""]

\* The error values of Start; NoError is a nil error.
NoError == "nil"
NotCalled == "not called"

\* probe.Map(name): the map, or nil when the manager has none of that name.
Map(mgr, name) == IF name \in mgr.maps THEN name ELSE ""

\* Start that takes a missing pid_cache for a present one.
start_IgnoresPidCache(f, mgr) ==
    LET missing == {i \in DOMAIN snapshotProbeIDs : snapshotProbeIDs[i] \notin mgr.probes}
        upto == IF missing = {} THEN Len(snapshotProbeIDs)
                ELSE (CHOOSE i \in missing : \A j \in missing : i <= j) - 1
        f1 == [f EXCEPT !.snapshotProbes = @ \o SubSeq(snapshotProbeIDs, 1, upto)]
        f2 == [f1 EXCEPT !.inodeInfoMap = Map(mgr, "inode_info_cache")]
        f3 == [f2 EXCEPT !.procCacheMap = Map(mgr, "proc_cache")]
        f4 == [f3 EXCEPT !.pidCookieMap = Map(mgr, "pid_cache")]
    IN  IF missing # {} THEN [fields |-> f1, err |-> "couldn't find probe"]
        ELSE IF f2.inodeInfoMap = "" THEN [fields |-> f2, err |-> "map inode_info_cache not found"]
        ELSE IF f3.procCacheMap = "" THEN [fields |-> f3, err |-> "map proc_cache not found"]
        ELSE [fields |-> f4, err |-> NoError]

\* Start on the fields f with the manager mgr: the fields it leaves and the
\* error it returns.  The probes before the first missing one are appended;
\* each map field is assigned before it is tested.
start(f, mgr) ==
    LET missing == {i \in DOMAIN snapshotProbeIDs : snapshotProbeIDs[i] \notin mgr.probes}
        upto == IF missing = {} THEN Len(snapshotProbeIDs)
                ELSE (CHOOSE i \in missing : \A j \in missing : i <= j) - 1
        f1 == [f EXCEPT !.snapshotProbes = @ \o SubSeq(snapshotProbeIDs, 1, upto)]
        f2 == [f1 EXCEPT !.inodeInfoMap = Map(mgr, "inode_info_cache")]
        f3 == [f2 EXCEPT !.procCacheMap = Map(mgr, "proc_cache")]
        f4 == [f3 EXCEPT !.pidCookieMap = Map(mgr, "pid_cache")]
    IN  IF missing # {} THEN [fields |-> f1, err |-> "couldn't find probe"]
        ELSE IF f2.inodeInfoMap = "" THEN [fields |-> f2, err |-> "map inode_info_cache not found"]
        ELSE IF f3.procCacheMap = "" THEN [fields |-> f3, err |-> "map proc_cache not found"]
        ELSE IF f4.pidCookieMap = "" THEN [fields |-> f4, err |-> "map pid_cache not found"]
        ELSE [fields |-> f4, err |-> NoError]

\* ----------------------------------------------------------------- decoder
\* The byte values the buffers are made of.
ByteVals == {0, 1, 255}

\* The buffers handed to InodeInfo.UnmarshalBinary: every length up to
\* MaxBufLen.  The top byte of each 32-bit field stays below 128, so that the
\* field's value is a number TLC can hold.
InodeBufs ==
    {b \in UNION {[1..n -> ByteVals] : n \in 0..MaxBufLen} :
        \A i \in {4, 8} : i \in DOMAIN b => b[i] < 128}

\* No buffer has been decoded yet.
NoInfo == [n |-> -1, err |-> FALSE, MountID |-> 0, OverlayNumLower |-> 0]

\* The resolver after NewProcessResolver and a Start that found everything.
Init ==
    /\ entryCache = [p \in Pids |-> NoEntry]
    /\ heap = <<>>
    /\ mu = NoThread
    /\ pc = [t \in Threads |-> "idle"]
    /\ op = [t \in Threads |-> "none"]
    /\ arg = [t \in Threads |-> NoArg]
    /\ ret = [t \in Threads |-> NoRet]
    /\ calls = 0
    /\ fields = start(NoFields, FullManager).fields
    /\ started = [n |-> 1, err |-> NoError]
    /\ inodeBuf = <<>>
    /\ inodeInfo = NoInfo

\* AddEntry(pid, entry): the caller built the entry; insertEntry is next.
AddEntry(t, pid, ppid, ts) ==
    /\ CanCall(t)
    /\ UNCHANGED setupVars
    /\ heap' = Append(heap, NewEntry(pid, ppid, ts))
    /\ pc' = [pc EXCEPT ![t] = "insertEntry"]
    /\ op' = [op EXCEPT ![t] = "AddEntry"]
    /\ arg' = [arg EXCEPT ![t] = [NewArg EXCEPT !.pid = pid, !.entry = Len(heap) + 1]]
    /\ ret' = [ret EXCEPT ![t] = NoRet]
    /\ calls' = calls + 1
    /\ UNCHANGED <<entryCache, mu>>

\* insertEntry(pid, entry), from p.Lock() to p.Unlock(), and the return of
\* the method that called it: AddEntry, SyncCache (true) or Resolve (&entry).
DoInsertEntry(t) ==
    /\ Running
    /\ UNCHANGED setupVars
    /\ pc[t] = "insertEntry"
    /\ mu = NoThread
    /\ LET r == insertEntry(heap, entryCache, arg[t].pid, arg[t].entry) IN
          /\ heap' = r.heap
          /\ entryCache' = r.cache
    /\ pc' = [pc EXCEPT ![t] = "idle"]
    /\ ret' = [ret EXCEPT ![t] =
                  IF op[t] = "SyncCache" THEN [NoRet EXCEPT !.ok = TRUE]
                  ELSE IF op[t] = "Resolve" THEN [NoRet EXCEPT !.ptr = arg[t].entry]
                  ELSE NoRet]
    /\ arg' = MapWritten(arg)
    /\ UNCHANGED <<mu, op, calls>>

\* DelEntry(pid): Lock, delete, deferred Unlock.
DelEntry(t, pid) ==
    /\ CanCall(t)
    /\ UNCHANGED setupVars
    /\ mu = NoThread
    /\ LET r == deleteEntry(heap, entryCache, pid) IN
          /\ heap' = r.heap
          /\ entryCache' = r.cache
    /\ op' = [op EXCEPT ![t] = "DelEntry"]
    /\ arg' = [(IF \E p \in Pids : entryCache[p] # NoEntry
                THEN MapWritten(arg) ELSE arg) EXCEPT ![t] = [NewArg EXCEPT !.pid = pid]]
    /\ ret' = [ret EXCEPT ![t] = NoRet]
    /\ calls' = calls + 1
    /\ UNCHANGED <<mu, pc>>

\* Get that stores a placeholder under a pid it does not find.
Get_CreatesOnMiss(t, pid) ==
    /\ CanCall(t)
    /\ UNCHANGED setupVars
    /\ mu = NoThread
    /\ op' = [op EXCEPT ![t] = "Get"]
    /\ arg' = [arg EXCEPT ![t] = [NewArg EXCEPT !.pid = pid]]
    /\ IF Lookup(entryCache, pid) # NoEntry
       THEN /\ ret' = [ret EXCEPT ![t] = [NoRet EXCEPT !.ptr = Lookup(entryCache, pid)]]
            /\ UNCHANGED <<entryCache, heap>>
       ELSE /\ heap' = Append(heap, NewEntry(pid, 0, ZeroTime))
            /\ entryCache' = [entryCache EXCEPT ![pid] = Len(heap) + 1]
            /\ ret' = [ret EXCEPT ![t] = [NoRet EXCEPT !.ptr = Len(heap) + 1]]
    /\ calls' = calls + 1
    /\ UNCHANGED <<mu, pc>>

\* Get(pid): RLock, look up, deferred RUnlock.
Get(t, pid) ==
    /\ CanCall(t)
    /\ UNCHANGED setupVars
    /\ mu = NoThread
    /\ op' = [op EXCEPT ![t] = "Get"]
    /\ arg' = [arg EXCEPT ![t] = [NewArg EXCEPT !.pid = pid]]
    /\ ret' = [ret EXCEPT ![t] = [NoRet EXCEPT !.ptr = Lookup(entryCache, pid)]]
    /\ calls' = calls + 1
    /\ UNCHANGED <<entryCache, heap, mu, pc>>

\* Resolve(pid): Lock; a cached pid is returned (deferred Unlock), else the
\* goroutine goes on to resolve(pid) with the lock held.
Resolve(t, pid) ==
    /\ CanCall(t)
    /\ UNCHANGED setupVars
    /\ mu = NoThread
    /\ op' = [op EXCEPT ![t] = "Resolve"]
    /\ arg' = [arg EXCEPT ![t] = [NewArg EXCEPT !.pid = pid]]
    /\ calls' = calls + 1
    /\ IF Lookup(entryCache, pid) # NoEntry
       THEN /\ ret' = [ret EXCEPT ![t] = [NoRet EXCEPT !.ptr = Lookup(entryCache, pid)]]
            /\ UNCHANGED <<mu, pc>>
       ELSE /\ ret' = [ret EXCEPT ![t] = NoRet]
            /\ mu' = t
            /\ pc' = [pc EXCEPT ![t] = "resolve"]
    /\ UNCHANGED <<entryCache, heap>>

\* resolve(pid), called by Resolve with the lock held: the two table lookups
\* and the decoding.  return nil runs Resolve's deferred Unlock, and so does
\* a panic; a decoded entry goes to insertEntry, the lock still held.
ResolveFallback(t) ==
    /\ Running
    /\ UNCHANGED setupVars
    /\ pc[t] = "resolve"
    /\ \E cookieLooked \in PidCookieAnswers, entryLooked \in ProcCacheAnswers :
          LET r == resolve(heap, arg[t].pid, cookieLooked, entryLooked) IN
             /\ heap' = r.heap
             /\ arg' = [arg EXCEPT ![t].lookups = r.lookups,
                                   ![t].entry = IF r.outcome = "insert"
                                                THEN Len(r.heap) ELSE NoEntry]
             /\ pc' = [pc EXCEPT ![t] = IF r.outcome = "insert" THEN "insertEntry"
                                        ELSE IF r.outcome = "panic" THEN "panicked"
                                        ELSE "idle"]
             /\ mu' = IF r.outcome = "insert" THEN mu ELSE NoThread
    /\ UNCHANGED <<entryCache, op, ret, calls>>

\* SyncCache(proc) up to enrichEventFromProc: pid 0 returns false; else Lock
\* and the check of the cache; an enriched entry unlocks and returns false; a
\* pid not in the cache gets a new entry.
SyncCache(t, proc) ==
    /\ CanCall(t)
    /\ UNCHANGED setupVars
    /\ proc.Pid = 0 \/ mu = NoThread
    /\ op' = [op EXCEPT ![t] = "SyncCache"]
    /\ ret' = [ret EXCEPT ![t] = NoRet]
    /\ calls' = calls + 1
    /\ IF proc.Pid = 0 \/ AlreadyEnriched(heap, entryCache, proc.Pid)
       THEN /\ arg' = [arg EXCEPT ![t] = [NewArg EXCEPT !.pid = proc.Pid, !.proc = proc]]
            /\ UNCHANGED <<heap, mu, pc>>
       ELSE /\ mu' = t
            /\ pc' = [pc EXCEPT ![t] = "enrich"]
            /\ IF Lookup(entryCache, proc.Pid) # NoEntry
               THEN /\ arg' = [arg EXCEPT ![t] = [NewArg EXCEPT !.pid = proc.Pid,
                                   !.proc = proc, !.inCache = TRUE,
                                   !.entry = Lookup(entryCache, proc.Pid)]]
                    /\ heap' = heap
               ELSE /\ arg' = [arg EXCEPT ![t] = [NewArg EXCEPT !.pid = proc.Pid,
                                   !.proc = proc, !.entry = Len(heap) + 1]]
                    /\ heap' = Append(heap, NewEntry(0, 0, ZeroTime))
    /\ UNCHANGED entryCache

\* SyncCache from enrichEventFromProc to p.Unlock(): a failure returns false,
\* a success goes on to insertEntry without the lock.
SyncCacheEnrich(t) ==
    /\ Running
    /\ UNCHANGED setupVars
    /\ pc[t] = "enrich"
    /\ \E env \in ProcEnvs :
          LET r == enrichEventFromProc(heap, arg[t].entry, arg[t].proc, env) IN
             /\ heap' = r.heap
             /\ pc' = [pc EXCEPT ![t] = IF r.err THEN "idle" ELSE "insertEntry"]
    /\ mu' = NoThread
    /\ UNCHANGED <<entryCache, op, arg, ret, calls>>

\* DumpCache(): the call begins.  No lock is taken, so it starts whoever holds
\* the mutex; the range over p.entryCache runs between this step and the next.
DumpCache(t) ==
    /\ CanCall(t)
    /\ UNCHANGED setupVars
    /\ op' = [op EXCEPT ![t] = "DumpCache"]
    /\ arg' = [arg EXCEPT ![t] = NewArg]
    /\ ret' = [ret EXCEPT ![t] = NoRet]
    /\ pc' = [pc EXCEPT ![t] = "dump"]
    /\ calls' = calls + 1
    /\ UNCHANGED <<entryCache, heap, mu>>

\* DumpCache(): the range ends.  It printed entries and changed nothing (what
\* it printed is not part of the state; the fields it read may have been
\* written meanwhile).  If any map write ran while the range was under way,
\* whether or not it left the map as it was, the Go runtime may also stop the
\* process ("concurrent map iteration and map write").
DumpCachePrint(t) ==
    /\ Running
    /\ UNCHANGED setupVars
    /\ pc[t] = "dump"
    /\ \/ pc' = [pc EXCEPT ![t] = "idle"]
       \/ /\ arg[t].written
          /\ pc' = [pc EXCEPT ![t] = "panicked"]
    /\ arg' = [arg EXCEPT ![t].written = FALSE]
    /\ UNCHANGED <<entryCache, heap, mu, op, ret, calls>>

Next ==
    \/ \E t \in Threads, pid \in Pids, ppid \in Pids, ts \in ExecTimes :
          AddEntry(t, pid, ppid, ts)
    \/ \E t \in Threads : DoInsertEntry(t)
    \/ \E t \in Threads, pid \in Pids : DelEntry(t, pid)
    \/ \E t \in Threads, pid \in Pids : Get(t, pid)
    \/ \E t \in Threads, pid \in Pids : Resolve(t, pid)
    \/ \E t \in Threads : ResolveFallback(t)
    \/ \E t \in Threads, proc \in Procs : SyncCache(t, proc)
    \/ \E t \in Threads : SyncCacheEnrich(t)
    \/ \E t \in Threads : DumpCache(t)
    \/ \E t \in Threads : DumpCachePrint(t)

Spec == Init /\ [][Next]_vars

\* ------------------------------------------------- start-up specification
\* Start(): one call, against whatever the manager holds at that moment.
Start(mgr) ==
    /\ started.n < MaxStarts
    /\ LET r == start(fields, mgr) IN
          /\ fields' = r.fields
          /\ started' = [n |-> started.n + 1, err |-> r.err]
    /\ UNCHANGED <<cacheVars, inodeBuf, inodeInfo>>

\* The resolver after NewProcessResolver, before any Start.
InitStart ==
    /\ entryCache = [p \in Pids |-> NoEntry]
    /\ heap = <<>>
    /\ mu = NoThread
    /\ pc = [t \in Threads |-> "idle"]
    /\ op = [t \in Threads |-> "none"]
    /\ arg = [t \in Threads |-> NoArg]
    /\ ret = [t \in Threads |-> NoRet]
    /\ calls = 0
    /\ fields = NoFields
    /\ started = [n |-> 0, err |-> NotCalled]
    /\ inodeBuf = <<>>
    /\ inodeInfo = NoInfo

NextStart == \E mgr \in Managers : Start(mgr)

SpecStart == InitStart /\ [][NextStart]_vars

\* --------------------------------------------------- decoder specification
\* InodeInfo.UnmarshalBinary(data) on the buffer at hand.
UnmarshalInode ==
    /\ inodeInfo = NoInfo
    /\ inodeInfo' = InodeInfoUnmarshalBinary(inodeBuf)
    /\ UNCHANGED <<cacheVars, fields, started, inodeBuf>>

\* Any buffer of the bounded set, not decoded yet.
InitDecode ==
    /\ entryCache = [p \in Pids |-> NoEntry]
    /\ heap = <<>>
    /\ mu = NoThread
    /\ pc = [t \in Threads |-> "idle"]
    /\ op = [t \in Threads |-> "none"]
    /\ arg = [t \in Threads |-> NoArg]
    /\ ret = [t \in Threads |-> NoRet]
    /\ calls = 0
    /\ fields = NoFields
    /\ started = [n |-> 0, err |-> NotCalled]
    /\ inodeBuf \in InodeBufs
    /\ inodeInfo = NoInfo

NextDecode == UnmarshalInode

SpecDecode == InitDecode /\ [][NextDecode]_vars

\* ------------------------------------------------------------------ steps
\* Goroutine t makes a call in this step.
Called(t) == arg'[t].id # arg[t].id

\* Goroutine t runs insertEntry in this step.
Inserted(t) == pc[t] = "insertEntry" /\ pc'[t] = "idle"

\* No object allocated so far changes in this step.
HeapKept == \A o \in DOMAIN heap : heap'[o] = heap[o]

\* The children of object o that are entries of pid.
ChildrenOf(h, o, pid) == {i \in DOMAIN h[o].Children : h[h[o].Children[i]].Pid = pid}

\* This step is an insert or a delete of pid: insertEntry for pid or
\* DelEntry(pid).
Touches(pid) ==
    \E t \in Threads :
       \/ Inserted(t) /\ arg[t].pid = pid
       \/ Called(t) /\ op'[t] = "DelEntry" /\ arg'[t].pid = pid

\* C1: insertEntry(pid, e) leaves e under pid with the pid and parent pid e
\* had, and until the next insert or DelEntry of pid no step changes what
\* Get(pid) returns nor its pid and parent pid.
C1_InsertThenGet ==
    [][\A pid \in Pids :
         /\ \A t \in Threads :
               Inserted(t) /\ arg[t].pid = pid =>
                  /\ Lookup(entryCache', pid) = arg[t].entry
                  /\ heap'[arg[t].entry].Pid = heap[arg[t].entry].Pid
                  /\ heap'[arg[t].entry].PPid = heap[arg[t].entry].PPid
         /\ Lookup(entryCache, pid) # NoEntry /\ ~Touches(pid) =>
               /\ Lookup(entryCache', pid) = Lookup(entryCache, pid)
               /\ heap'[entryCache[pid]].Pid = heap[entryCache[pid]].Pid
               /\ heap'[entryCache[pid]].PPid = heap[entryCache[pid]].PPid
      ]_vars

\* C2: when insertEntry stores the record of P and a child C of P was
\* inserted before (C is cached, its parent pid is P and it hangs under what
\* was stored for P), the entry Get(P) returns afterwards lists exactly one
\* entry for C and is C's parent reference.
C2_ParentAfterChild ==
    [][\A t \in Threads : Inserted(t) =>
         \A C \in Pids \ {arg[t].pid} :
            LET P == arg[t].pid
                old == entryCache[P]
                c == entryCache[C]
                new == Lookup(entryCache', P)
            IN (/\ old # NoEntry /\ c # NoEntry
                /\ heap[c].PPid = P /\ heap[c].Parent = old
                /\ \E i \in DOMAIN heap[old].Children : heap[old].Children[i] = c)
               => /\ Cardinality(ChildrenOf(heap', new, C)) = 1
                  /\ heap'[c].Parent = new
      ]_vars

\* C3: a Resolve whose fallback found and decoded the kernel record of its
\* pid goes on to store the entry and to return it: its insertEntry can run.
C3_FallbackPublishes ==
    \A t \in Threads :
       op[t] = "Resolve" /\ pc[t] = "insertEntry" => ENABLED DoInsertEntry(t)

\* C4: no goroutine waits for the resolver's lock while holding it itself,
\* and a call makes at most two table lookups.
C4_NoSelfDeadlock ==
    \A t \in Threads :
       /\ ~(pc[t] = "insertEntry" /\ mu = t)
       /\ arg[t].lookups <= 2

\* pid -> cookie misses, or it answers a cookie and cookie -> record misses.
KernelMiss(cookieLooked, entryLooked) ==
    \/ cookieLooked.err \/ cookieLooked.isnil
    \/ /\ Len(cookieLooked.bytes) >= CookieSize
       /\ entryLooked.err \/ entryLooked.isnil

\* C5: a Resolve of a pid not in the cache changes nothing before its
\* fallback; the fallback answers nil on a kernel miss, allocating nothing;
\* and the return of nil leaves the map and every entry as they were, with
\* the lock released.
C5_UnresolvedNoMutation ==
    [][\A t \in Threads :
         /\ Called(t) /\ op'[t] = "Resolve" =>
               entryCache' = entryCache /\ heap' = heap
         /\ pc[t] = "resolve" =>
               /\ \A cl \in PidCookieAnswers, el \in ProcCacheAnswers :
                     KernelMiss(cl, el) =>
                        /\ resolve(heap, arg[t].pid, cl, el).outcome = "nil"
                        /\ resolve(heap, arg[t].pid, cl, el).heap = heap
               /\ pc'[t] = "idle" =>
                     /\ ret'[t].ptr = NoEntry
                     /\ entryCache' = entryCache /\ heap' = heap
                     /\ mu' = NoThread
      ]_vars

\* A Resolve made both lookups and returned nil while the cache held entries.
C5_Witness ==
    \E t \in Threads :
       /\ op[t] = "Resolve" /\ pc[t] = "idle"
       /\ arg[t].lookups = 2 /\ ret[t].ptr = NoEntry
       /\ Lookup(entryCache, arg[t].pid) = NoEntry
       /\ \E p \in Pids : entryCache[p] # NoEntry

\* C6: DelEntry(P) leaves P absent, every other pid's map slot as it was and
\* every entry untouched: a cached child of P stays cached and keeps its
\* parent reference to the evicted entry.
C6_DelEntryKeepsChildren ==
    [][\A t \in Threads : Called(t) /\ op'[t] = "DelEntry" =>
         LET P == arg'[t].pid IN
            /\ Lookup(entryCache', P) = NoEntry
            /\ \A C \in Pids \ {P} :
                  /\ Lookup(entryCache', C) = Lookup(entryCache, C)
                  /\ entryCache[C] # NoEntry =>
                        heap'[entryCache[C]].Parent = heap[entryCache[C]].Parent
            /\ HeapKept
      ]_vars

\* DelEntry(P) has returned, P is absent, and a cached child still refers to
\* an entry of pid P as its parent.
C6_Witness ==
    \E t \in Threads : \E C \in Pids :
       /\ op[t] = "DelEntry" /\ pc[t] = "idle"
       /\ Lookup(entryCache, arg[t].pid) = NoEntry
       /\ C # arg[t].pid
       /\ entryCache[C] # NoEntry
       /\ heap[entryCache[C]].Parent # NoEntry
       /\ heap[heap[entryCache[C]].Parent].Pid = arg[t].pid
       /\ heap[entryCache[C]].PPid = arg[t].pid

\* The goroutines whose AddEntry has returned.
AddEntryDone == {t \in Threads : op[t] = "AddEntry" /\ pc[t] = "idle"}

\* Every call made so far is an AddEntry that has returned, one per
\* goroutine, on pairwise distinct pids.
OnlyDistinctInserts ==
    /\ calls = Cardinality(AddEntryDone)
    /\ \A t \in Threads : op[t] \in {"AddEntry", "none"}
    /\ \A t, u \in AddEntryDone : t # u => arg[t].pid # arg[u].pid

\* C7: once N AddEntry calls of N goroutines on pairwise distinct pids have
\* all returned, Get(pid) is the inserted entry for each of them.
C7_ConcurrentInserts ==
    OnlyDistinctInserts =>
       \A t \in AddEntryDone : Lookup(entryCache, arg[t].pid) = arg[t].entry

\* Two AddEntry calls have returned, the pid of one is the parent pid of the
\* other, and the child went first: a placeholder was allocated in between.
C7_Witness ==
    /\ OnlyDistinctInserts
    /\ \E t, u \in AddEntryDone :
          /\ t # u
          /\ heap[arg[t].entry].PPid = arg[u].pid
          /\ Len(heap) = 3
          /\ heap[3].Children = <<arg[t].entry>>

\* C8: a SyncCache whose pid is cached with a non-zero exec timestamp returns
\* false at once: it does not go on to the enrichment, and the map, every
\* entry and the lock are as before.
C8_SyncCacheSkipsEnriched ==
    [][\A t \in Threads :
         (/\ Called(t) /\ op'[t] = "SyncCache"
          /\ entryCache[arg'[t].pid] # NoEntry
          /\ heap[entryCache[arg'[t].pid]].ExecTimestamp # ZeroTime)
         => /\ pc'[t] = "idle" /\ ret'[t].ok = FALSE
            /\ entryCache' = entryCache /\ heap' = heap /\ mu' = mu
      ]_vars

\* A SyncCache of a pid >= 1 returned false without an entry in hand, and the
\* pid is cached with a non-zero exec timestamp.
C8_Witness ==
    \E t \in Threads :
       /\ op[t] = "SyncCache" /\ pc[t] = "idle" /\ ret[t].ok = FALSE
       /\ arg[t].pid >= 1 /\ arg[t].entry = NoEntry
       /\ entryCache[arg[t].pid] # NoEntry
       /\ heap[entryCache[arg[t].pid]].ExecTimestamp # ZeroTime

\* C9: SyncCache changes nothing before the enrichment and returns false
\* there only with the lock free; a failed enrichment returns false with the
\* map and every entry as before and the lock released; true is returned by
\* the insertEntry alone, which leaves the enriched entry under the pid.
C9_SyncCacheResult ==
    [][\A t \in Threads :
         /\ Called(t) /\ op'[t] = "SyncCache" =>
               /\ entryCache' = entryCache /\ HeapKept
               /\ pc'[t] = "idle" => ret'[t].ok = FALSE /\ mu' = mu /\ heap' = heap
         /\ pc[t] = "enrich" /\ pc'[t] = "idle" =>
               /\ ret'[t].ok = FALSE
               /\ entryCache' = entryCache /\ heap' = heap
               /\ mu' = NoThread
         /\ Inserted(t) /\ op[t] = "SyncCache" =>
               /\ ret'[t].ok = TRUE
               /\ Lookup(entryCache', arg[t].pid) = arg[t].entry
               /\ heap'[arg[t].entry].ExecTimestamp # ZeroTime
               /\ heap'[arg[t].entry].Pid = arg[t].pid
               /\ mu' = NoThread
         /\ op'[t] = "SyncCache" /\ ret'[t].ok /\ ~ret[t].ok => Inserted(t)
      ]_vars

\* A SyncCache failed to enrich the placeholder cached for its pid and
\* returned false: the placeholder is still there, with its child.
C9_Witness ==
    \E t \in Threads :
       /\ op[t] = "SyncCache" /\ pc[t] = "idle" /\ ret[t].ok = FALSE
       /\ arg[t].entry # NoEntry
       /\ entryCache[arg[t].pid] = arg[t].entry
       /\ heap[arg[t].entry].ExecTimestamp = ZeroTime
       /\ Len(heap[arg[t].entry].Children) = 1

\* A SyncCache enriched the placeholder cached for its pid and returned true.
C9_WitnessTrue ==
    \E t \in Threads :
       /\ op[t] = "SyncCache" /\ pc[t] = "idle" /\ ret[t].ok
       /\ entryCache[arg[t].pid] = arg[t].entry
       /\ Len(heap[arg[t].entry].Children) = 1

\* C10: malformed kernel data never panics: no call of Resolve ends in a
\* panic, whatever the tables answer.
C10_MalformedIsUnresolved ==
    \A t \in Threads : op[t] = "Resolve" => pc[t] # "panicked"

\* ------------------------------------------------------------------- C11
\* The value of the bytes s read in the tracer's (little-endian) byte order.
RECURSIVE LittleEndian(_)
LittleEndian(s) == IF s = <<>> THEN 0 ELSE Head(s) + 256 * LittleEndian(Tail(s))

\* C11: decoding an inode-info record from a buffer shorter than 8 bytes
\* fails with "not enough data" and consumes 0 bytes; from 8 bytes or more it
\* consumes exactly 8, never more than the buffer holds, and yields the mount
\* id of bytes 0..3 and the overlay-lower count of bytes 4..7, little-endian.
C11_InodeInfoDecode ==
    inodeInfo # NoInfo =>
        /\ inodeInfo.n <= Len(inodeBuf)
        /\ IF Len(inodeBuf) < 8
           THEN inodeInfo.err /\ inodeInfo.n = 0
           ELSE /\ ~inodeInfo.err
                /\ inodeInfo.n = 8
                /\ inodeInfo.MountID = LittleEndian(SubSeq(inodeBuf, 1, 4))
                /\ inodeInfo.OverlayNumLower = LittleEndian(SubSeq(inodeBuf, 5, 8))

\* A buffer of exactly 8 bytes was decoded into two fields that each span
\* more than one byte.
C11_Witness ==
    /\ inodeInfo # NoInfo
    /\ Len(inodeBuf) = 8
    /\ inodeInfo.n = 8
    /\ inodeInfo.MountID > 255
    /\ inodeInfo.OverlayNumLower > 255

\* ------------------------------------------------------------------- C12
\* C12: Get(pid) is a peek: it returns what the map holds under pid (or
\* nothing), makes no kernel-table lookup, creates no entry and leaves the map,
\* every entry object and the lock as they were.
C12_GetIsPeek ==
    [][\A t \in Threads : Called(t) /\ op'[t] = "Get" =>
         /\ ret'[t].ptr = entryCache[arg'[t].pid]
         /\ arg'[t].lookups = 0
         /\ entryCache' = entryCache
         /\ heap' = heap
         /\ mu' = mu
         /\ pc' = pc
      ]_vars

\* One Get has returned a cached entry and another Get has found nothing
\* under its pid, which is still absent.
C12_Witness ==
    \E t, u \in Threads :
       /\ op[t] = "Get" /\ pc[t] = "idle"
       /\ ret[t].ptr # NoEntry
       /\ op[u] = "Get" /\ pc[u] = "idle"
       /\ ret[u].ptr = NoEntry
       /\ entryCache[arg[u].pid] = NoEntry

\* ------------------------------------------------------------------- C13
\* C13: an insert under a pid that already holds something, a real entry or a
\* placeholder, replaces it: afterwards the map holds the inserted entry.
C13_LastWriteWins ==
    [][\A t \in Threads :
          Inserted(t) /\ entryCache[arg[t].pid] # NoEntry =>
             entryCache'[arg[t].pid] = arg[t].entry
      ]_vars

\* A second AddEntry under a pid has returned and the map holds its entry,
\* while the entry an earlier insert stored under that pid still hangs under
\* its parent.
C13_Witness ==
    \E t \in Threads : \E o \in DOMAIN heap :
       /\ op[t] = "AddEntry" /\ pc[t] = "idle"
       /\ entryCache[arg[t].pid] = arg[t].entry
       /\ o < arg[t].entry
       /\ heap[o].Pid = arg[t].pid
       /\ heap[o].ExecTimestamp # ZeroTime
       /\ heap[o].Parent # NoEntry

\* ------------------------------------------------------------------- C14
\* C14: Start returns no error only when the manager holds the snapshot
\* probe and all three kernel tables; then the three map fields are set.  If
\* any of the four is missing Start returns an error.
C14_StartNeedsEverything ==
    [][\A mgr \in Managers :
          Start(mgr) =>
              /\ started'.err = NoError <=>
                    /\ \A i \in DOMAIN snapshotProbeIDs : snapshotProbeIDs[i] \in mgr.probes
                    /\ MapNames \subseteq mgr.maps
              /\ started'.err = NoError =>
                    /\ fields'.inodeInfoMap = "inode_info_cache"
                    /\ fields'.procCacheMap = "proc_cache"
                    /\ fields'.pidCookieMap = "pid_cache"
                    /\ fields'.snapshotProbes # <<>>]_vars

\* A second Start succeeded after a first one that found no snapshot probe.
C14_Witness ==
    /\ started.n = 2
    /\ started.err = NoError
    /\ Len(fields.snapshotProbes) = 1

\* ------------------------------------------------------------------- C15
\* C15: a Resolve(pid) that found the pid in the kernel tables does not shut
\* out a second Resolve(pid): while the first publishes its entry, any idle
\* goroutine can make the second call.
C15_SecondResolveRuns ==
    \A t, u \in Threads :
       /\ t # u
       /\ op[t] = "Resolve"
       /\ pc[t] = "insertEntry"
       /\ CanCall(u)
       => ENABLED Resolve(u, arg[t].pid)

\* ------------------------------------------------------------------- C16
\* C16: no goroutine holds the exclusive lock at the point where it makes
\* Resolve's kernel-table lookups or SyncCache's /proc reads and inode-table
\* lookup.
C16_NoIOUnderLock ==
    \A t \in Threads : pc[t] \in {"resolve", "enrich"} => mu # t

\* ------------------------------------------------------------------- C17
\* C17: no map write runs while a map read is in progress: no goroutine that
\* ranges over the map in DumpCache has had a map write (an insert, or a
\* delete on a map that is not empty) run since its call began.
C17_NoWriteDuringDump ==
    \A t \in Threads : pc[t] = "dump" => ~arg[t].written

\* ------------------------------------------------------------------- C18
\* C18: every cached entry whose parent pid is 0 has no parent reference.
C18_RootHasNoParent ==
    \A p \in Pids :
       entryCache[p] # NoEntry /\ heap[entryCache[p]].PPid = 0 =>
          heap[entryCache[p]].Parent = NoEntry

\* ------------------------------------------------------------------- C19
\* What insertEntry(pid, e) does for the parent pid P of e.  P cached: no
\* entry is created, e is appended to the child list of the entry under P and
\* linked to it.  P not cached and P >= 1: a placeholder of pid P with the
\* child list [e] is created and e is linked to it; the map holds it under P,
\* or, when selfAware and P = pid, holds e there.  P not cached and P = 0: no
\* entry is created and e has no parent reference.
InsertLinks(t, selfAware) ==
    LET e == arg[t].entry
        pid == arg[t].pid
        P == heap[e].PPid
        old == entryCache[P]
        ph == Len(heap) + 1
    IN IF old # NoEntry
       THEN /\ Len(heap') = Len(heap)
            /\ heap'[old].Children = Append(heap[old].Children, e)
            /\ heap'[e].Parent = old
       ELSE IF P >= 1
       THEN /\ Len(heap') = Len(heap) + 1
            /\ heap'[ph] = [NewEntry(P, 0, ZeroTime) EXCEPT !.Children = <<e>>]
            /\ heap'[e].Parent = ph
            /\ entryCache'[P] = IF selfAware /\ P = pid THEN e ELSE ph
       ELSE /\ Len(heap') = Len(heap)
            /\ heap'[e].Parent = NoEntry

\* C19 as stated: whenever the parent pid P >= 1 of the inserted entry is not
\* cached, the map holds the new placeholder under P afterwards.
C19_PlaceholderStored ==
    [][\A t \in Threads : Inserted(t) => InsertLinks(t, FALSE)]_vars

\* C19, amended: the same, except that for an entry that names itself as its
\* parent (P = pid) the map holds the entry itself under P afterwards, the
\* placeholder being reachable only as its parent reference.
C19_PlaceholderUnlessSelf ==
    [][\A t \in Threads : Inserted(t) => InsertLinks(t, TRUE)]_vars

\* An insert has created a placeholder for an uncached parent, and a second
\* insert has appended its entry to that placeholder's child list.
C19_Witness ==
    \E P \in Pids \ {0} :
       /\ entryCache[P] # NoEntry
       /\ heap[entryCache[P]].ExecTimestamp = ZeroTime
       /\ Len(heap[entryCache[P]].Children) = 2
       /\ \A i \in {1, 2} :
             /\ heap[heap[entryCache[P]].Children[i]].Parent = entryCache[P]
             /\ heap[heap[entryCache[P]].Children[i]].Pid # P

\* ------------------------------------------------------------------- C20
\* C20: DelEntry(pid) empties the map slot of pid and changes nothing else:
\* not another slot, not an entry object (child lists and parent references
\* included, so the deleted entry stays in its parent's child list), not the
\* lock; on a pid that is not cached it changes nothing at all.
C20_DelEntryFrame ==
    [][\A t \in Threads : Called(t) /\ op'[t] = "DelEntry" =>
         LET pid == arg'[t].pid
             old == entryCache[pid]
         IN /\ entryCache' = [entryCache EXCEPT ![pid] = NoEntry]
            /\ old = NoEntry => entryCache' = entryCache
            /\ heap' = heap
            /\ old # NoEntry /\ heap[old].Parent # NoEntry =>
                  \E i \in DOMAIN heap'[heap[old].Parent].Children :
                     heap'[heap[old].Parent].Children[i] = old
            /\ mu' = mu
            /\ pc' = pc
      ]_vars

\* DelEntry(pid) has returned, pid is absent, and the entry it removed is
\* still listed as a child of its cached parent.
C20_Witness ==
    \E t \in Threads : \E P \in Pids :
       /\ op[t] = "DelEntry" /\ pc[t] = "idle"
       /\ entryCache[arg[t].pid] = NoEntry
       /\ P # arg[t].pid
       /\ entryCache[P] # NoEntry
       /\ \E i \in DOMAIN heap[entryCache[P]].Children :
             LET o == heap[entryCache[P]].Children[i] IN
                /\ heap[o].Pid = arg[t].pid
                /\ heap[o].Parent = entryCache[P]

\* ------------------------------------------------------------------- C21
\* C21: a SyncCache of a pid whose cached entry has a zero exec timestamp
\* works on that entry object and builds no other; enriching it keeps its
\* child list and creates no entry; and the insert that ends the call stores
\* that same object under the pid, keeps the children it had and creates no
\* entry of that pid.
C21_FilledInPlace ==
    [][\A t \in Threads :
          /\ Called(t) /\ op'[t] = "SyncCache" /\ pc'[t] = "enrich"
             /\ entryCache[arg'[t].pid] # NoEntry =>
                /\ arg'[t].inCache
                /\ arg'[t].entry = entryCache[arg'[t].pid]
                /\ heap' = heap
          /\ pc[t] = "enrich" /\ pc'[t] # "enrich" /\ arg[t].inCache =>
                /\ Len(heap') = Len(heap)
                /\ heap'[arg[t].entry].Children = heap[arg[t].entry].Children
          /\ Inserted(t) /\ op[t] = "SyncCache" /\ arg[t].inCache =>
                LET e == arg[t].entry IN
                   /\ entryCache'[arg[t].pid] = e
                   /\ Len(heap'[e].Children) >= Len(heap[e].Children)
                   /\ SubSeq(heap'[e].Children, 1, Len(heap[e].Children)) = heap[e].Children
                   /\ \A o \in DOMAIN heap' \ DOMAIN heap : heap'[o].Pid # arg[t].pid
      ]_vars

\* ------------------------------------------------------------------- C22
\* C22: no cached entry's child list holds the same entry object twice, nor
\* two entries of the same pid.
C22_NoDuplicateChildren ==
    \A p \in Pids :
       entryCache[p] # NoEntry =>
          LET kids == heap[entryCache[p]].Children IN
             \A i, j \in DOMAIN kids :
                i # j => kids[i] # kids[j] /\ heap[kids[i]].Pid # heap[kids[j]].Pid

\* ------------------------------------------------------------------- C23
\* C23: between the moment SyncCache has checked the cache and enriched its
\* entry and the moment it stores the entry, no step changes what the map
\* holds under the pid.
C23_SyncCacheAtomic ==
    [][\A t \in Threads :
          /\ op[t] = "SyncCache"
          /\ pc[t] = "insertEntry"
          /\ pc'[t] = "insertEntry"
          => entryCache'[arg[t].pid] = entryCache[arg[t].pid]
      ]_vars

\* ------------------------------------------------------------------- C24
\* C24: whenever no call is under way, for every cached entry e, a parent
\* reference of e is an entry of e's parent pid that lists e as a child, and
\* every entry in e's child list has e as its parent reference.
C24_LinksConsistent ==
    \A p \in Pids :
       (\A t \in Threads : pc[t] = "idle") /\ entryCache[p] # NoEntry =>
          LET e == entryCache[p] IN
             /\ heap[e].Parent # NoEntry =>
                   /\ heap[heap[e].Parent].Pid = heap[e].PPid
                   /\ \E i \in DOMAIN heap[heap[e].Parent].Children :
                         heap[heap[e].Parent].Children[i] = e
             /\ \A i \in DOMAIN heap[e].Children :
                   heap[heap[e].Children[i]].Parent = e

====
